---- MODULE Spec2Model ----
(***************************************************************************)
(* Model of Beeftext's software update manager (UpdateManager.cpp): a      *)
(* single-shot QTimer owned by the control (GUI) thread, one worker thread *)
(* per update check, and the queued signals the workers send back.         *)
(*                                                                         *)
(* Time is counted in units of TimeUnitMs = 8 ms, the largest power of two *)
(* dividing kLaunchCheckDelayMs: the two delays of the program and the     *)
(* range of a 32 bit int are then all exact multiples of the unit and all  *)
(* values fit the model checker's integers. Dates are units elapsed since  *)
(* an arbitrary epoch; the program only uses differences of dates.         *)
(***************************************************************************)
EXTENDS Integers, Sequences, FiniteSets, TLC

\* ------------------------------------------------------------------ bounds
\* Worker threads that can exist at the same time, and steps of the clock.
MaxWorkers == 2
MaxTicks == 2

\* --------------------------------------------------------------- constants
kLaunchCheckDelayMs == 1000
kUpdateCheckIntervalMs == 1000 * 60 * 60 * 24
\* width of the int parameter of QTimer::start(int msec)
QTimerIntBits == 32

TimeUnitMs == 2^3
LaunchDelay == kLaunchCheckDelayMs \div TimeUnitMs
CheckInterval == kUpdateCheckIntervalMs \div TimeUnitMs
Hour == (1000 * 60 * 60) \div TimeUnitMs
Day == 24 * Hour

\* 2^QTimerIntBits ms and 2^(QTimerIntBits - 1) ms, in time units
IntModulus == 2^(QTimerIntBits - 3)
IntHalf == 2^(QTimerIntBits - 4)

\* A null QDateTime (dates are never negative), a null SpLatestVersionInfo
NullDate == 0 - 1
Null == "null"
Now0 == 40 * Day

\* The last check date found in the preferences at launch: none, overdue (25
\* hours ago), due in less than the launch delay, one hour ago, later than the
\* current time (the clock was set back by an hour, or by weeks).
InitialLastChecks ==
    { NullDate, Now0 - 25 * Hour, Now0 - Day + (LaunchDelay \div 2),
      Now0 - Hour, Now0 + Hour, Now0 + 25 * Day }

\* How far the clock moves between two events of the control thread.
TickSteps == { LaunchDelay, CheckInterval }

WorkerIds == 1..MaxWorkers
VersionInfos == { Null, "v9.9" }
Outcomes == { "updateIsAvailable", "noUpdateIsAvailable", "error" }

VARIABLES
    pref,           \* PreferencesManager::autoCheckForUpdates()
    lastCheck,      \* PreferencesManager::lastUpdateCheckDateTime()
    now,            \* QDateTime::currentDateTime()
    timer_,         \* the single-shot QTimer: [active, interval, start]
    wstate,         \* per worker: the state of the worker and of its thread
    queue,          \* signals of the workers queued for the control thread
    emitted,        \* per worker: the signals UpdateManager emitted for its check
    finishedLog,    \* the signals emitted for the check that has just finished
    fatal,          \* an xmilib::Exception was thrown
    lastOp,         \* the last step of the control thread or of the clock
    sinceToggle,    \* "none": the preference was never changed; "quiet": no
                    \*   check started or finished since its last change;
                    \*   "check": one did
    offDuring,      \* workers during whose check the preference was set false
    ticks,          \* the number of clock steps taken
    dialogs,        \* the UpdateDialog::exec() calls that have not returned,
                    \*   innermost last: the check and the version
                    \*   information of each dialog that is open
    completion,     \* the effects of the onWorkerFinished() that has just run,
                    \*   each with the state of the thread and of the objects
                    \*   at the time of the effect
    globalsCall     \* the deployment, the backup preferences and the last
                    \*   call of a path function of namespace globals

vars == << pref, lastCheck, now, timer_, wstate, queue, emitted, finishedLog,
           fatal, lastOp, sinceToggle, offDuring, ticks, dialogs, completion,
           globalsCall >>

\* ----------------------------------------------------------------- helpers
qMax(a, b) == IF a >= b THEN a ELSE b

\* QDateTime::msecsTo: from.msecsTo(to)
msecsTo(from, to) == to - from

\* qint64 msSecsToNextCheck of onAutoCheckForUpdateChanged
msSecsToNextCheckSwapped(lastCheckDateTime, currentDateTime) ==
    IF lastCheckDateTime = NullDate
    THEN CheckInterval
    ELSE qMax(LaunchDelay,
              msecsTo(currentDateTime, lastCheckDateTime + CheckInterval))

msSecsToNextCheck(lastCheckDateTime, currentDateTime) ==
    IF lastCheckDateTime = NullDate
    THEN LaunchDelay
    ELSE qMax(LaunchDelay,
              msecsTo(currentDateTime, lastCheckDateTime + CheckInterval))

\* The conversion of a qint64 argument to the int of QTimer::start(int msec)
ToInt(x) == ((x + IntHalf) % IntModulus) - IntHalf

\* An inactive timer; the program never reads its interval.
TimerIdle == [active |-> FALSE, interval |-> 0, start |-> 0]

\* QTimer::stop()
TimerStopped(t) == TimerIdle

\* QTimer::start(int msec) called with a qint64 at the date given
TimerStarted(t, msec, date) ==
    [active |-> TRUE, interval |-> ToInt(msec), start |-> date]

\* A started QTimer times out once its interval has elapsed; QObject::startTimer
\* refuses a negative interval, and such a timer never times out.
TimerExpired(t, date) ==
    t.active /\ t.interval >= 0 /\ msecsTo(t.start, date) >= t.interval

\* A single-shot timer is inactive when its timeout() signal is emitted.
TimerTimedOut(t) == TimerIdle

ActiveWorkers == { i \in WorkerIds : wstate[i] \in {"running", "finished"} }

Signal(sig, info) == [sig |-> sig, info |-> info]

\* A check started or finished: what sinceToggle becomes
CheckActivity(s) == IF s = "none" THEN "none" ELSE "check"

\* ------------------------------------------------- onWorkerFinished() body
\* The statements of onWorkerFinished() after the check of the sender, in the
\* order of the source.
onWorkerFinishedBodyEmitsBeforeWait ==
    << "thread->quit", "emit finishedUpdateCheck", "thread->wait",
       "delete worker", "thread->deleteLater", "setLastUpdateCheckDateTime",
       "timer_.start" >>

onWorkerFinishedBody ==
    << "thread->quit", "thread->wait", "delete worker", "thread->deleteLater",
       "emit finishedUpdateCheck", "setLastUpdateCheckDateTime",
       "timer_.start" >>

\* The statements other objects can observe
CompletionEffects == { "emit finishedUpdateCheck", "setLastUpdateCheckDateTime",
                       "timer_.start" }

\* When finished() is delivered the thread of the worker still runs its event
\* loop, and the worker and the QThread object exist.
ObjectsOfFinishedWorker ==
    [thread |-> "running", worker |-> "alive", threadObject |-> "alive"]

\* One statement of the body. QThread::quit() makes the event loop of the
\* thread return, QThread::wait() blocks until the thread has ended, delete
\* destroys the worker at once, and QObject::deleteLater() only schedules the
\* deletion of the QThread object for when control returns to the event loop.
Execute(stmt, o) ==
    CASE stmt = "thread->quit" -> [o EXCEPT !.thread = "quitting"]
      [] stmt = "thread->wait" -> [o EXCEPT !.thread = "joined"]
      [] stmt = "delete worker" -> [o EXCEPT !.worker = "deleted"]
      [] stmt = "thread->deleteLater" ->
            [o EXCEPT !.threadObject = "deleteLater"]
      [] OTHER -> o

\* The effects of the statements body[k], body[k+1], ..., each with the objects
\* as they are when the effect happens
RECURSIVE EffectsOf(_, _, _)
EffectsOf(body, k, o) ==
    IF k > Len(body)
    THEN << >>
    ELSE IF body[k] \in CompletionEffects
         THEN << [effect |-> body[k], thread |-> o.thread, worker |-> o.worker,
                  threadObject |-> o.threadObject] >>
              \o EffectsOf(body, k + 1, o)
         ELSE EffectsOf(body, k + 1, Execute(body[k], o))

\* ------------------------------------------------ paths (namespace globals)
\* A path is the sequence of its components; an absolute path starts with the
\* drive. The empty sequence is the empty QString.
Drive == "C:"
IsAbsolute(path) == path # << >> /\ path[1] = Drive

\* QDir::cleanPath of an absolute path: "." is dropped, ".." removes the
\* component before it, and ".." at the root of the drive is dropped.
RECURSIVE cleanPathFrom(_, _, _)
cleanPathFrom(path, k, done) ==
    IF k > Len(path)
    THEN done
    ELSE IF path[k] = "."
         THEN cleanPathFrom(path, k + 1, done)
         ELSE IF path[k] = ".."
              THEN cleanPathFrom(path, k + 1,
                                 IF Len(done) > 1
                                 THEN SubSeq(done, 1, Len(done) - 1)
                                 ELSE done)
              ELSE cleanPathFrom(path, k + 1, Append(done, path[k]))
cleanPath(path) == cleanPathFrom(path, 1, << >>)

\* QDir(dir).absoluteFilePath(fileName) for an absolute dir: an absolute
\* fileName is returned as it is; otherwise fileName is appended, not cleaned,
\* to the cleaned absolute path of the directory.
absoluteFilePath(dir, fileName) ==
    IF IsAbsolute(fileName) THEN fileName ELSE cleanPath(dir) \o fileName

\* The deployments and preferences the path functions are called with
ApplicationDirPaths ==
    { << Drive, "PortableApps", "BeeftextPortable", "App", "Beeftext" >>,
      << Drive, "Tools", "Beeftext" >>,
      << Drive, "Beeftext" >> }
AppLocalDataLocations ==
    { << Drive, "Users", "u", "AppData", "Local", "beeftext.org", "Beeftext" >>,
      << Drive, "Users", "v", "AppData", "Local", "beeftext.org", "Beeftext" >> }
CustomBackupLocations ==
    { << >>, << Drive, "Backups" >>, << Drive, "Users", "u", "Documents" >> }

Environments ==
    [ isInPortableMode : BOOLEAN,
      usePortableAppsFolderLayout : BOOLEAN,
      applicationDirPath : ApplicationDirPaths,
      writableLocation : AppLocalDataLocations,
      useCustomBackupLocation : BOOLEAN,
      customBackupLocation : CustomBackupLocations ]

\* globals::portableModeDataFolderPath()
portableModeDataFolderPath(e) ==
    IF e.usePortableAppsFolderLayout
    THEN absoluteFilePath(e.applicationDirPath,
                          << "..", "..", "Data", "settings" >>)
    ELSE absoluteFilePath(e.applicationDirPath, << "Data" >>)

\* globals::appDataDir()
appDataDirIgnoresPortableMode(e) == e.writableLocation

appDataDir(e) ==
    IF e.isInPortableMode
    THEN portableModeDataFolderPath(e)
    ELSE e.writableLocation

\* globals::translationRootFolderPath()
translationRootFolderPath(e) ==
    absoluteFilePath(e.applicationDirPath, << "Translations" >>)

\* globals::userTranslationRootFolderPath()
userTranslationRootFolderPath(e) ==
    absoluteFilePath(appDataDir(e), << "Translations" >>)

\* globals::logFilePath()
logFilePath(e) == absoluteFilePath(appDataDir(e), << "log.txt" >>)

\* globals::defaultBackupFolderPath()
defaultBackupFolderPath(e) == absoluteFilePath(appDataDir(e), << "Backup" >>)

\* globals::backupFolderPath()
backupFolderPathSkipsEmptyTest(e) ==
    IF ~e.useCustomBackupLocation
    THEN defaultBackupFolderPath(e)
    ELSE e.customBackupLocation

backupFolderPath(e) ==
    IF ~e.useCustomBackupLocation
    THEN defaultBackupFolderPath(e)
    ELSE IF e.customBackupLocation = << >>
         THEN defaultBackupFolderPath(e)
         ELSE e.customBackupLocation

\* globals::portableModeSettingsFilePath()
portableModeSettingsFilePath(e) ==
    absoluteFilePath(portableModeDataFolderPath(e), << "Settings.ini" >>)

\* globals::sensitiveApplicationsFilePath()
sensitiveApplicationsFilePath(e) ==
    absoluteFilePath(appDataDir(e), << "sensitiveApps.json" >>)

\* globals::emojiExcludedAppsFilePath()
emojiExcludedAppsFilePath(e) ==
    absoluteFilePath(appDataDir(e), << "emojiExcludedApps.json" >>)

PathFunctions ==
    { "appDataDir", "translationRootFolderPath",
      "userTranslationRootFolderPath", "logFilePath", "backupFolderPath",
      "defaultBackupFolderPath", "portableModeDataFolderPath",
      "portableModeSettingsFilePath", "sensitiveApplicationsFilePath",
      "emojiExcludedAppsFilePath" }

\* What the function named fn returns in the environment e
PathOf(fn, e) ==
    CASE fn = "appDataDir" -> appDataDir(e)
      [] fn = "translationRootFolderPath" -> translationRootFolderPath(e)
      [] fn = "userTranslationRootFolderPath" ->
            userTranslationRootFolderPath(e)
      [] fn = "logFilePath" -> logFilePath(e)
      [] fn = "backupFolderPath" -> backupFolderPath(e)
      [] fn = "defaultBackupFolderPath" -> defaultBackupFolderPath(e)
      [] fn = "portableModeDataFolderPath" -> portableModeDataFolderPath(e)
      [] fn = "portableModeSettingsFilePath" ->
            portableModeSettingsFilePath(e)
      [] fn = "sensitiveApplicationsFilePath" ->
            sensitiveApplicationsFilePath(e)
      [] fn = "emojiExcludedAppsFilePath" -> emojiExcludedAppsFilePath(e)

\* No path function was called yet
NoCall(e) == [env |-> e, fn |-> "none", result |-> << >>]

\* An installed, not portable, application with the default backup folder
InstalledNoCall ==
    NoCall([ isInPortableMode |-> FALSE,
             usePortableAppsFolderLayout |-> FALSE,
             applicationDirPath |-> << Drive, "Tools", "Beeftext" >>,
             writableLocation |-> << Drive, "Users", "u", "AppData", "Local",
                                     "beeftext.org", "Beeftext" >>,
             useCustomBackupLocation |-> FALSE,
             customBackupLocation |-> << >> ])

\* ---------------------------------------------------------- UpdateManager
\* timer_ after onAutoCheckForUpdateChanged(enabled)
onAutoCheckForUpdateChanged(t, enabled, lastCheckDateTime, currentDateTime) ==
    IF ~enabled
    THEN TimerStopped(t)
    ELSE TimerStarted(TimerStopped(t),
                      msSecsToNextCheck(lastCheckDateTime, currentDateTime),
                      currentDateTime)

\* The constructor: the timer is made single-shot, the signals are connected
\* and onAutoCheckForUpdateChanged(prefs.autoCheckForUpdates()) is called.
Init ==
    /\ pref \in BOOLEAN
    /\ lastCheck \in InitialLastChecks
    /\ now = Now0
    /\ timer_ = onAutoCheckForUpdateChanged(TimerIdle, pref, lastCheck, now)
    /\ wstate = [i \in WorkerIds |-> "none"]
    /\ queue = << >>
    /\ emitted = [i \in WorkerIds |-> << >>]
    /\ finishedLog = << >>
    /\ fatal = FALSE
    /\ lastOp = "ctor"
    /\ sinceToggle = "none"
    /\ offDuring = {}
    /\ ticks = 0
    /\ dialogs = << >>
    /\ completion = << >>
    /\ globalsCall = InstalledNoCall

\* A step of the control thread or of the clock: the log of the check that had
\* just finished is dropped.
Step(op) ==
    /\ lastOp' = op
    /\ finishedLog' = << >>
    /\ completion' = << >>

\* The preference changes to enabled: PreferencesManager emits
\* autoCheckForUpdatesChanged(enabled), which runs the slot
\* onAutoCheckForUpdateChanged(enabled) on the control thread.
SetAutoCheckForUpdates(enabled) ==
    /\ ~fatal
    /\ enabled # pref
    /\ pref' = enabled
    /\ timer_' = onAutoCheckForUpdateChanged(timer_, enabled, lastCheck, now)
    /\ Step("autoCheckChanged")
    /\ sinceToggle' = "quiet"
    /\ offDuring' = IF enabled THEN {} ELSE ActiveWorkers
    /\ UNCHANGED << lastCheck, now, wstate, queue, emitted, fatal, ticks,
                    dialogs, globalsCall >>

\* The checks whose dialog is open
DialogIds == { dialogs[k].id : k \in 1..Len(dialogs) }

\* An identity names a check: its worker, its thread and its dialog. It is
\* free when none of them exists, and the next check takes the least free one.
FreeIds == { i \in WorkerIds : wstate[i] = "none" /\ i \notin DialogIds }
NewId == CHOOSE i \in FreeIds : \A k \in FreeIds : i <= k

\* startUpdateCheckWorker(): startedUpdateCheck is emitted, a thread and a
\* worker are created and the thread is started.
startUpdateCheckWorker ==
    /\ emitted' = [emitted EXCEPT
                     ![NewId] = << Signal("startedUpdateCheck", Null) >>]
    /\ wstate' = [wstate EXCEPT ![NewId] = "running"]
    /\ sinceToggle' = CheckActivity(sinceToggle)
    /\ UNCHANGED offDuring

\* timer_ after checkForUpdate()
checkForUpdateNoStop(t) == t

checkForUpdate(t) == TimerStopped(t)

\* checkForUpdate() called by the user interface
ManualCheck ==
    /\ ~fatal
    /\ FreeIds # {}
    /\ timer_' = checkForUpdate(timer_)
    /\ startUpdateCheckWorker
    /\ Step("manual")
    /\ UNCHANGED << pref, lastCheck, now, queue, fatal, ticks, dialogs,
                    globalsCall >>

\* checkForUpdate() called by QTimer::timeout
TimerTimeout ==
    /\ ~fatal
    /\ FreeIds # {}
    /\ TimerExpired(timer_, now)
    /\ timer_' = checkForUpdate(TimerTimedOut(timer_))
    /\ startUpdateCheckWorker
    /\ Step("timeout")
    /\ UNCHANGED << pref, lastCheck, now, queue, fatal, ticks, dialogs,
                    globalsCall >>

\* ------------------------------------------------------ UpdateCheckWorker
\* UpdateCheckWorker::run() on the thread of the worker: the worker emits one
\* outcome and then finished(); both signals are queued for the control thread,
\* in that order. The slots of one worker's signals touch no state of another
\* worker, so queueing the two signals in one step loses no order of the slots
\* that the properties below can tell apart.
WorkerRun(id, outcome, info) ==
    /\ ~fatal
    /\ wstate[id] = "running"
    /\ (outcome # "updateIsAvailable") => (info = Null)
    /\ queue' = queue \o << [id |-> id, sig |-> outcome, info |-> info],
                            [id |-> id, sig |-> "finished", info |-> Null] >>
    /\ wstate' = [wstate EXCEPT ![id] = "finished"]
    /\ UNCHANGED << pref, lastCheck, now, timer_, emitted, finishedLog,
                    fatal, lastOp, sinceToggle, offDuring, ticks, dialogs,
                    completion, globalsCall >>

\* --------------------------------------------- slots run by queued signals
Emit(id, sig, info) ==
    emitted' = [emitted EXCEPT ![id] = Append(@, Signal(sig, info))]

\* The control thread takes the oldest queued signal, which is sig.
Delivered(sig) ==
    /\ ~fatal
    /\ queue # << >>
    /\ Head(queue).sig = sig
    /\ queue' = Tail(queue)

\* The outcome signals of a log of emitted signals
OutcomeSignals == { "updateIsAvailable", "noUpdateIsAvailable",
                    "updateCheckFailed" }
OutcomesOf(log) == { k \in 1..Len(log) : log[k].sig \in OutcomeSignals }
Failed(log) == \E k \in 1..Len(log) : log[k].sig = "updateCheckFailed"

\* What onWorkerFinished() does besides saving the date and starting the
\* timer: the thread of the sender is quit and joined, the worker and the
\* thread are deleted and finishedUpdateCheck is emitted.
TearDownAndEmitFinished ==
    /\ Delivered("finished")
    /\ wstate' = [wstate EXCEPT ![Head(queue).id] = "none"]
    /\ emitted' = [emitted EXCEPT ![Head(queue).id] = << >>]
    /\ finishedLog' = Append(emitted[Head(queue).id],
                             Signal("finishedUpdateCheck", Null))
    /\ lastOp' = "onWorkerFinished"
    /\ sinceToggle' = CheckActivity(sinceToggle)
    /\ offDuring' = offDuring \ {Head(queue).id}
    /\ completion' = EffectsOf(onWorkerFinishedBody, 1, ObjectsOfFinishedWorker)
    /\ UNCHANGED << pref, now, fatal, ticks, dialogs, globalsCall >>

onWorkerFinishedRetriesSoonAfterError ==
    /\ TearDownAndEmitFinished
    /\ lastCheck' = now
    /\ timer_' = TimerStarted(timer_,
                              IF Failed(emitted[Head(queue).id])
                              THEN LaunchDelay ELSE CheckInterval,
                              now)

onWorkerFinishedAbandonsWhenDisabled ==
    IF pref
    THEN /\ TearDownAndEmitFinished
         /\ lastCheck' = now
         /\ timer_' = TimerStarted(timer_, CheckInterval, now)
    ELSE /\ Delivered("finished")
         /\ Step("onWorkerFinished")
         /\ UNCHANGED << pref, lastCheck, now, timer_, wstate, emitted, fatal,
                         sinceToggle, offDuring, ticks, dialogs, globalsCall >>

\* onWorkerFinished()
onWorkerFinished ==
    /\ TearDownAndEmitFinished
    /\ lastCheck' = now
    /\ timer_' = TimerStarted(timer_, CheckInterval, now)

\* The dialog of a check as it is shown
Dialog(id, info) == [id |-> id, info |-> info]

\* onWorkerUpdateIsAvailable(latestVersionInfo) up to the call of
\* UpdateDialog::exec(): the test of the version information, the emit and the
\* dialog shown. exec() runs an event loop of its own, so until the dialog is
\* closed the slot has not returned and every other step of the control
\* thread runs inside it.
onWorkerUpdateIsAvailableChecksAfterEmit ==
    /\ Delivered("updateIsAvailable")
    /\ Emit(Head(queue).id, "updateIsAvailable", Head(queue).info)
    /\ fatal' = (Head(queue).info = Null)
    /\ dialogs' = IF Head(queue).info = Null
                  THEN dialogs
                  ELSE Append(dialogs, Dialog(Head(queue).id, Head(queue).info))
    /\ Step("onWorkerUpdateIsAvailable")
    /\ UNCHANGED << pref, lastCheck, now, timer_, wstate, sinceToggle,
                    offDuring, ticks, globalsCall >>

onWorkerUpdateIsAvailable ==
    /\ Delivered("updateIsAvailable")
    /\ IF Head(queue).info = Null
       THEN /\ fatal' = TRUE
            /\ UNCHANGED << emitted, dialogs >>
       ELSE /\ Emit(Head(queue).id, "updateIsAvailable", Head(queue).info)
            /\ dialogs' = Append(dialogs,
                                 Dialog(Head(queue).id, Head(queue).info))
            /\ UNCHANGED fatal
    /\ Step("onWorkerUpdateIsAvailable")
    /\ UNCHANGED << pref, lastCheck, now, timer_, wstate, sinceToggle,
                    offDuring, ticks, globalsCall >>

\* The user closes the innermost dialog: its UpdateDialog::exec() returns and
\* with it the call of onWorkerUpdateIsAvailable() that opened it. The slot
\* has no statement after exec(), so nothing else changes.
UpdateDialogClosed ==
    /\ ~fatal
    /\ dialogs # << >>
    /\ dialogs' = SubSeq(dialogs, 1, Len(dialogs) - 1)
    /\ UNCHANGED << pref, lastCheck, now, timer_, wstate, queue, emitted,
                    finishedLog, fatal, lastOp, sinceToggle, offDuring, ticks,
                    completion, globalsCall >>

\* onWorkerNoUpdateIsAvailable()
onWorkerNoUpdateIsAvailableSavesDate ==
    /\ Delivered("noUpdateIsAvailable")
    /\ Emit(Head(queue).id, "noUpdateIsAvailable", Null)
    /\ lastCheck' = now
    /\ Step("onWorkerNoUpdateIsAvailable")
    /\ UNCHANGED << pref, now, timer_, wstate, fatal, sinceToggle, offDuring,
                    ticks, dialogs, globalsCall >>

onWorkerNoUpdateIsAvailable ==
    /\ Delivered("noUpdateIsAvailable")
    /\ Emit(Head(queue).id, "noUpdateIsAvailable", Null)
    /\ Step("onWorkerNoUpdateIsAvailable")
    /\ UNCHANGED << pref, lastCheck, now, timer_, wstate, fatal, sinceToggle,
                    offDuring, ticks, dialogs, globalsCall >>

onWorkerErrorEmitsNothing ==
    /\ Delivered("error")
    /\ Step("onWorkerError")
    /\ UNCHANGED << pref, lastCheck, now, timer_, wstate, emitted, fatal,
                    sinceToggle, offDuring, ticks, dialogs, globalsCall >>

onWorkerError ==
    /\ Delivered("error")
    /\ Emit(Head(queue).id, "updateCheckFailed", Null)
    /\ Step("onWorkerError")
    /\ UNCHANGED << pref, lastCheck, now, timer_, wstate, fatal, sinceToggle,
                    offDuring, ticks, dialogs, globalsCall >>

\* ------------------------------------------------------------------- time
Tick(d) ==
    /\ ~fatal
    /\ ticks < MaxTicks
    /\ now' = now + d
    /\ ticks' = ticks + 1
    /\ Step("tick")
    /\ UNCHANGED << pref, lastCheck, timer_, wstate, queue, emitted, fatal,
                    sinceToggle, offDuring, dialogs, globalsCall >>

Next ==
    \/ \E enabled \in BOOLEAN : SetAutoCheckForUpdates(enabled)
    \/ ManualCheck
    \/ TimerTimeout
    \/ \E id \in WorkerIds, outcome \in Outcomes, info \in VersionInfos :
          WorkerRun(id, outcome, info)
    \/ onWorkerFinished
    \/ onWorkerUpdateIsAvailable
    \/ UpdateDialogClosed
    \/ onWorkerNoUpdateIsAvailable
    \/ onWorkerError
    \/ \E d \in TickSteps : Tick(d)

Spec == Init /\ [][Next]_vars

\* The same program with workers that keep their contract (an available update
\* comes with its version information), threads that are scheduled and an
\* event loop that delivers every queued signal. The clock moves once by a
\* full interval, which lets the armed timer expire.
WorkerRunsToCompletion(id) ==
    \E outcome \in Outcomes, info \in VersionInfos :
        /\ (outcome = "updateIsAvailable") => (info # Null)
        /\ WorkerRun(id, outcome, info)

\* The clock moves once, by a full interval
FullIntervalPasses == ticks = 0 /\ Tick(CheckInterval)

NextWithSoundWorkers ==
    \/ \E enabled \in BOOLEAN : SetAutoCheckForUpdates(enabled)
    \/ ManualCheck
    \/ TimerTimeout
    \/ \E id \in WorkerIds : WorkerRunsToCompletion(id)
    \/ onWorkerFinished
    \/ onWorkerUpdateIsAvailable
    \/ UpdateDialogClosed
    \/ onWorkerNoUpdateIsAvailable
    \/ onWorkerError
    \/ FullIntervalPasses

\* Whether a started check completes does not depend on the dates: the launch
\* is taken with a check made an hour before.
InitFair == Init /\ lastCheck = Now0 - Hour

SpecFair ==
    /\ InitFair
    /\ [][NextWithSoundWorkers]_vars
    /\ \A id \in WorkerIds : WF_vars(WorkerRunsToCompletion(id))
    /\ WF_vars(onWorkerFinished)
    /\ WF_vars(onWorkerUpdateIsAvailable)
    /\ WF_vars(onWorkerNoUpdateIsAvailable)
    /\ WF_vars(onWorkerError)

\* ------------------------------------------- a finish without a worker
\* onWorkerFinished() runs with a sender() that is no UpdateCheckWorker, as
\* when the slot is called directly: the exception is thrown before any other
\* statement. No connection of the program delivers such a notification, so
\* the step is part of this specification only.
onWorkerFinishedIgnoresSender ==
    /\ ~fatal
    /\ lastCheck' = now
    /\ timer_' = TimerStarted(timer_, CheckInterval, now)
    /\ lastOp' = "onWorkerFinished: no worker"
    /\ finishedLog' = << Signal("finishedUpdateCheck", Null) >>
    /\ completion' = << >>
    /\ UNCHANGED << pref, now, wstate, queue, emitted, fatal, sinceToggle,
                    offDuring, ticks, dialogs, globalsCall >>

onWorkerFinishedWithoutWorker ==
    /\ ~fatal
    /\ fatal' = TRUE
    /\ Step("onWorkerFinished: no worker")
    /\ UNCHANGED << pref, lastCheck, now, timer_, wstate, queue, emitted,
                    sinceToggle, offDuring, ticks, dialogs, globalsCall >>

NextOrStrayFinish ==
    \/ Next
    \/ onWorkerFinishedWithoutWorker

SpecStrayFinish == Init /\ [][NextOrStrayFinish]_vars

\* ------------------------------------------------- the path functions alone
\* A path function of namespace globals is called.
CallPathFunction(fn) ==
    /\ globalsCall' = [globalsCall EXCEPT !.fn = fn,
                                          !.result = PathOf(fn, globalsCall.env)]
    /\ UNCHANGED << pref, lastCheck, now, timer_, wstate, queue, emitted,
                    finishedLog, fatal, lastOp, sinceToggle, offDuring, ticks,
                    dialogs, completion >>

\* Every deployment and every setting of the backup preferences, with an
\* UpdateManager that stays as constructed.
InitPaths ==
    /\ pref = FALSE
    /\ lastCheck = NullDate
    /\ now = Now0
    /\ timer_ = onAutoCheckForUpdateChanged(TimerIdle, pref, lastCheck, now)
    /\ wstate = [i \in WorkerIds |-> "none"]
    /\ queue = << >>
    /\ emitted = [i \in WorkerIds |-> << >>]
    /\ finishedLog = << >>
    /\ fatal = FALSE
    /\ lastOp = "ctor"
    /\ sinceToggle = "none"
    /\ offDuring = {}
    /\ ticks = 0
    /\ dialogs = << >>
    /\ completion = << >>
    /\ globalsCall \in { NoCall(e) : e \in Environments }

NextPaths == \E fn \in PathFunctions : CallPathFunction(fn)

SpecPaths == InitPaths /\ [][NextPaths]_vars

\* ------------------------------------------------------------ properties
\* A step that processes the finished() signal of a worker
FinishStep ==
    /\ queue # << >>
    /\ Head(queue).sig = "finished"
    /\ queue' = Tail(queue)

\* C1: at most one update check worker thread is active, whatever the
\* interleaving of timer expiries, manual checks, preference changes and
\* worker completions.
C1_AtMostOneActiveWorker == Cardinality(ActiveWorkers) <= 1

\* C2: for all sequences of toggles of the preference, interleaved with checks
\* starting and finishing, the timer is armed if and only if the most recent
\* toggle enabled the preference. The states with a check in progress are left
\* out: checkForUpdate() stops the timer for the duration of a check.
C2_ArmedIffLastToggleEnabled ==
    (sinceToggle # "none" /\ ActiveWorkers = {}) => (timer_.active <=> pref)

\* C3: when the preference became false during a check and is still false
\* when onWorkerFinished processes the completion of that check, the timer is
\* left disarmed.
C3_NoRearmAfterDisable ==
    [][ (FinishStep /\ Head(queue).id \in offDuring /\ ~pref)
            => ~timer_'.active ]_vars

\* C4: whatever the outcome of a check, once its completion is processed the
\* last check date is the completion date and the timer is armed for exactly
\* the full interval of 86,400,000 ms.
C4_FinishSavesDateAndArmsFullInterval ==
    (finishedLog # << >>) =>
        /\ lastOp = "onWorkerFinished"
        /\ lastCheck = now
        /\ timer_.active
        /\ timer_.start = now
        /\ timer_.interval * TimeUnitMs = kUpdateCheckIntervalMs
        /\ kUpdateCheckIntervalMs = 86400000

C4_Witness ==
    /\ finishedLog # << >>
    /\ Failed(finishedLog)
    /\ now > Now0
    /\ lastCheck = now
    /\ timer_.interval = CheckInterval

\* C5: for a check whose worker reported one outcome and then finished,
\* exactly one outcome signal is emitted, after startedUpdateCheck and before
\* finishedUpdateCheck; finishedUpdateCheck is never emitted before it.
C5_OneOutcomeThenFinished ==
    /\ (finishedLog # << >>) =>
          /\ Len(finishedLog) = 3
          /\ finishedLog[1].sig = "startedUpdateCheck"
          /\ OutcomesOf(finishedLog) = {2}
          /\ finishedLog[3].sig = "finishedUpdateCheck"
    /\ \A i \in WorkerIds :
          /\ \A k \in 1..Len(emitted[i]) :
                emitted[i][k].sig # "finishedUpdateCheck"
          /\ Cardinality(OutcomesOf(emitted[i])) <= 1

C5_Witness ==
    /\ Len(finishedLog) = 3
    /\ finishedLog[2].sig = "updateCheckFailed"
    /\ \E i \in WorkerIds : Len(emitted[i]) = 1

\* Right after onAutoCheckForUpdateChanged(true), called by the constructor
\* or by a change of the preference
JustEnabled == lastOp \in {"ctor", "autoCheckChanged"} /\ pref

\* C6: when the preference is enabled and a last check date exists, the timer
\* is armed with the delay max(short delay, last check + full interval - now).
C6_DelayIsMaxOfShortAndRemaining ==
    (JustEnabled /\ lastCheck # NullDate) =>
        /\ timer_.active
        /\ timer_.interval =
              qMax(LaunchDelay, (lastCheck + CheckInterval) - now)

\* C7: when the preference is enabled and there is no last check date, the
\* timer is armed with the short delay of 1000 ms, whatever the current time.
C7_FirstDelayIsShortDelay ==
    (JustEnabled /\ lastCheck = NullDate) =>
        /\ timer_.active
        /\ timer_.start = now
        /\ timer_.interval * TimeUnitMs = kLaunchCheckDelayMs
        /\ kLaunchCheckDelayMs = 1000

C7_Witness ==
    /\ JustEnabled
    /\ lastOp = "autoCheckChanged"
    /\ lastCheck = NullDate
    /\ now > Now0
    /\ timer_.interval = LaunchDelay

\* C8: no check is started by the timer while the preference is disabled.
C8_NoTimeoutWhileDisabled == (lastOp = "timeout") => pref

\* C9: while a check is in progress the timer is not armed.
C9_TimerNotArmedWhileChecking == (ActiveWorkers # {}) => ~timer_.active

\* A call of checkForUpdate() by the user interface while Idle-Scheduled
IdleScheduled == timer_.active /\ ActiveWorkers = {}
ManualStep == lastOp' = "manual" /\ ActiveWorkers' # ActiveWorkers

\* C10: a manual check requested while Idle-Scheduled disarms the timer and
\* starts a check at once, whatever the remaining delay: right after the call
\* the timer is disarmed, startedUpdateCheck has been emitted, a worker is
\* running, and the timer cannot time out however long the check lasts.
C10_ManualCheckDisarmsAndStarts ==
    [][ (IdleScheduled /\ ManualStep) =>
            /\ ~timer_'.active
            /\ \A d \in {0} \cup TickSteps : ~TimerExpired(timer_', now + d)
            /\ \E i \in WorkerIds :
                  /\ ActiveWorkers' = {i}
                  /\ wstate'[i] = "running"
                  /\ emitted'[i] = << Signal("startedUpdateCheck", Null) >> ]_vars

C10_Witness ==
    /\ lastOp = "manual"
    /\ pref
    /\ ~timer_.active
    /\ Cardinality(ActiveWorkers) = 1
    /\ lastCheck = now - Hour

\* C11: a check that has started always completes: its worker runs, its
\* signals are delivered, and onWorkerFinished tears its thread down and emits
\* finishedUpdateCheck after its startedUpdateCheck; a worker only ever goes
\* away through that step, whatever the preference, the timer and the manual
\* checks do meanwhile.
C11_StartedCheckCompletes ==
    /\ \A i \in WorkerIds : (wstate[i] = "running") ~> (wstate[i] = "none")
    /\ [][ \A i \in WorkerIds :
             (wstate[i] # "none" /\ wstate'[i] = "none") =>
                /\ FinishStep
                /\ Head(queue).id = i
                /\ wstate[i] = "finished"
                /\ Len(finishedLog') = 3
                /\ finishedLog'[1].sig = "startedUpdateCheck"
                /\ finishedLog'[3].sig = "finishedUpdateCheck" ]_vars

C11_Witness ==
    /\ finishedLog # << >>
    /\ sinceToggle = "check"
    /\ ~pref
    /\ now > Now0
    /\ ActiveWorkers # {}


\* ------------------------------------------------------------------ paths
\* The data folder relative to the directory of the executable, and the file
\* or folder name each function appends to the data folder
ExeRelativeDataFolder(e) ==
    cleanPath(e.applicationDirPath
              \o (IF e.usePortableAppsFolderLayout
                  THEN << "..", "..", "Data", "settings" >>
                  ELSE << "Data" >>))
EntryName(fn) ==
    CASE fn = "appDataDir" -> << >>
      [] fn = "userTranslationRootFolderPath" -> << "Translations" >>
      [] fn = "logFilePath" -> << "log.txt" >>
      [] fn = "defaultBackupFolderPath" -> << "Backup" >>
      [] fn = "portableModeSettingsFilePath" -> << "Settings.ini" >>
      [] fn = "sensitiveApplicationsFilePath" -> << "sensitiveApps.json" >>
      [] fn = "emojiExcludedAppsFilePath" -> << "emojiExcludedApps.json" >>
DataPathFunctions ==
    { "appDataDir", "userTranslationRootFolderPath", "logFilePath",
      "defaultBackupFolderPath", "portableModeSettingsFilePath",
      "sensitiveApplicationsFilePath", "emojiExcludedAppsFilePath" }
IsPrefix(p, q) == Len(p) <= Len(q) /\ SubSeq(q, 1, Len(p)) = p

\* C12: backupFolderPath() returns the custom backup location if and only if
\* the use-custom-backup-location preference is true and the custom path is
\* not empty; in every other case it returns the 'Backup' entry under
\* appDataDir().
C12_BackupFolderIsCustomIffSetAndNotEmpty ==
    (globalsCall.fn = "backupFolderPath") =>
        LET e == globalsCall.env
            custom == e.useCustomBackupLocation /\ e.customBackupLocation # << >>
        IN /\ (globalsCall.result = e.customBackupLocation) <=> custom
           /\ ~custom =>
                 globalsCall.result = cleanPath(appDataDir(e)) \o << "Backup" >>

\* The custom location is enabled and empty, and the default folder of a
\* portable deployment was returned
C12_Witness ==
    /\ globalsCall.fn = "backupFolderPath"
    /\ globalsCall.env.useCustomBackupLocation
    /\ globalsCall.env.customBackupLocation = << >>
    /\ globalsCall.env.isInPortableMode
    /\ globalsCall.result =
          ExeRelativeDataFolder(globalsCall.env) \o << "Backup" >>

\* C13: in portable mode appDataDir() and every path derived from it (log
\* file, default backup folder, user translations folder, sensitive
\* applications file, emoji excluded applications file, portable settings
\* file) lies under the data folder relative to the directory of the executable
\* and not under the per-user system location; when not in portable mode they
\* all lie under the per-user system location.
C13_PathsFollowPortableMode ==
    (globalsCall.fn \in DataPathFunctions) =>
        LET e == globalsCall.env
        IN IF e.isInPortableMode
           THEN /\ cleanPath(globalsCall.result) =
                      ExeRelativeDataFolder(e) \o EntryName(globalsCall.fn)
                /\ ~IsPrefix(e.writableLocation, cleanPath(globalsCall.result))
           ELSE cleanPath(globalsCall.result) =
                   e.writableLocation \o EntryName(globalsCall.fn)

\* C13, amended: as C13, except that the portable settings file lies under the
\* data folder relative to the directory of the executable in both modes.
C13_PathsFollowPortableModeButSettingsFile ==
    (globalsCall.fn \in DataPathFunctions) =>
        LET e == globalsCall.env
        IN IF e.isInPortableMode \/ globalsCall.fn = "portableModeSettingsFilePath"
           THEN /\ cleanPath(globalsCall.result) =
                      ExeRelativeDataFolder(e) \o EntryName(globalsCall.fn)
                /\ ~IsPrefix(e.writableLocation, cleanPath(globalsCall.result))
           ELSE cleanPath(globalsCall.result) =
                   e.writableLocation \o EntryName(globalsCall.fn)

\* The log file of a portable deployment with the PortableApps layout
C13_Witness ==
    /\ globalsCall.fn = "logFilePath"
    /\ globalsCall.env.isInPortableMode
    /\ globalsCall.env.usePortableAppsFolderLayout
    /\ globalsCall.result = << Drive, "PortableApps", "BeeftextPortable",
                               "Data", "settings", "log.txt" >>

\* ------------------------------------------------------------- completion
\* The three effects of the completion processing, in the order of the source
EffectNames(log) == [k \in 1..Len(log) |-> log[k].effect]
CompletionProcessed ==
    EffectNames(completion) = << "emit finishedUpdateCheck",
                                 "setLastUpdateCheckDateTime", "timer_.start" >>

\* C14: on worker completion the completion processing (emit
\* finishedUpdateCheck, persist the last-check timestamp, re-arm the timer)
\* happens only after the thread of the worker has been quit and joined and the
\* worker and thread objects disposed; none of the three effects happens while
\* the thread of that check is still running.
C14_EffectsAfterJoinAndDisposal ==
    (lastOp = "onWorkerFinished") =>
        /\ CompletionProcessed
        /\ \A k \in 1..Len(completion) :
              /\ completion[k].thread = "joined"
              /\ completion[k].worker = "deleted"
              /\ completion[k].threadObject = "deleted"

\* C14, amended: the three effects happen only after the thread of the worker
\* has been quit and joined, the worker object deleted and the thread object
\* scheduled for deletion (deleteLater); the thread object still exists while
\* the effects happen.
C14_EffectsAfterJoinAndScheduledDisposal ==
    (lastOp = "onWorkerFinished") =>
        /\ CompletionProcessed
        /\ \A k \in 1..Len(completion) :
              /\ completion[k].thread = "joined"
              /\ completion[k].worker = "deleted"
              /\ completion[k].threadObject = "deleteLater"

\* The completion of one check was processed while another check is running
C14_Witness ==
    /\ lastOp = "onWorkerFinished"
    /\ Len(completion) = 3
    /\ lastCheck = now
    /\ timer_.active
    /\ \E i \in WorkerIds : wstate[i] = "running"

\* ----------------------------------------------------------- construction
\* C15: immediately after construction no check is in progress and the timer is
\* armed if and only if the auto-check preference read at construction is
\* true: armed with the delay given by the scheduling policy, otherwise
\* disarmed.
C15_ConstructedIdleAndArmedIffEnabled ==
    (lastOp = "ctor") =>
        /\ ActiveWorkers = {}
        /\ queue = << >>
        /\ timer_.active <=> pref
        /\ pref => /\ timer_.interval = msSecsToNextCheck(lastCheck, now)
                   /\ timer_.start = now

\* ---------------------------------------------------------- stray finish
StrayFinishStep == ~fatal /\ lastOp' = "onWorkerFinished: no worker"

\* C16: if a finish notification arrives whose sender is not an update-check
\* worker, onWorkerFinished raises an unrecoverable error and changes nothing:
\* finishedUpdateCheck is not emitted, the last-check timestamp is not written
\* and the timer is left as it was.
C16_StrayFinishThrowsAndChangesNothing ==
    [][ StrayFinishStep =>
           /\ fatal'
           /\ finishedLog' = << >>
           /\ emitted' = emitted
           /\ lastCheck' = lastCheck
           /\ timer_' = timer_
           /\ wstate' = wstate
           /\ queue' = queue ]_vars

\* The stray notification arrived while a check was running, the timer was
\* armed and the finished() of another check was waiting in the queue
C16_Witness ==
    /\ lastOp = "onWorkerFinished: no worker"
    /\ fatal
    /\ timer_.active
    /\ queue # << >>
    /\ \E i \in WorkerIds : wstate[i] = "running"

\* ------------------------------------------------------ update available
UpdateIsAvailableStep ==
    /\ queue # << >>
    /\ Head(queue).sig = "updateIsAvailable"
    /\ queue' = Tail(queue)

\* C17: if the worker reports an available update with null version
\* information, onWorkerUpdateIsAvailable raises an unrecoverable error before
\* any effect: updateIsAvailable is not emitted and no update dialog is shown;
\* with version information the notification is emitted with that same version
\* information.
C17_NullVersionInfoThrowsBeforeAnyEffect ==
    [][ UpdateIsAvailableStep =>
           IF Head(queue).info = Null
           THEN /\ fatal'
                /\ emitted' = emitted
                /\ dialogs' = dialogs
           ELSE /\ ~fatal'
                /\ emitted' = [emitted EXCEPT ![Head(queue).id] =
                                 Append(@, Signal("updateIsAvailable",
                                                  Head(queue).info))]
                /\ dialogs' = Append(dialogs, [id |-> Head(queue).id,
                                               info |-> Head(queue).info]) ]_vars

\* The exception was thrown inside the open dialog of an earlier check, whose
\* completion had been processed there; the failing check announced no update
\* and showed no dialog
C17_Witness ==
    /\ fatal
    /\ lastOp = "onWorkerUpdateIsAvailable"
    /\ \E i, j \in WorkerIds :
          /\ wstate[i] = "finished"
          /\ i \notin DialogIds
          /\ emitted[i] = << Signal("startedUpdateCheck", Null) >>
          /\ wstate[j] = "none"
          /\ dialogs = << [id |-> j, info |-> "v9.9"] >>

\* ------------------------------------------------------- last-check date
\* The steps of onAutoCheckForUpdateChanged, of checkForUpdate with
\* startUpdateCheckWorker, and of the three outcome handlers
OtherHandlerStep ==
    lastOp' \in { "autoCheckChanged", "manual", "timeout",
                  "onWorkerUpdateIsAvailable", "onWorkerNoUpdateIsAvailable",
                  "onWorkerError" }

\* C18: the last-check timestamp is written only when the completion of a check
\* is processed; onAutoCheckForUpdateChanged, checkForUpdate and
\* startUpdateCheckWorker and the three outcome handlers leave it unchanged.
C18_LastCheckWrittenOnlyByCompletion ==
    [][ /\ OtherHandlerStep => (lastCheck' = lastCheck)
        /\ (lastCheck' # lastCheck) =>
              /\ FinishStep
              /\ lastCheck' = now ]_vars

\* A check has started, its outcome was handled and its completion is still
\* queued; the preference was then enabled and the timer armed with the delay
\* computed from the date stored at construction
C18_Witness ==
    /\ lastOp = "autoCheckChanged"
    /\ pref
    /\ now > Now0
    /\ \E i \in WorkerIds : wstate[i] = "finished" /\ Len(emitted[i]) = 2
    /\ lastCheck = Now0 - Hour
    /\ timer_ = TimerStarted(TimerIdle, msSecsToNextCheck(lastCheck, now), now)

\* ------------------------------------------------------ range of the delay
\* C19: whenever the timer is armed, its delay lies between the short delay
\* (1000 ms) and the full interval (86,400,000 ms) inclusive, for every stored
\* last-check timestamp and every current time, also when the last-check
\* timestamp lies later than the current time.
C19_ArmedDelayWithinShortAndFullInterval ==
    timer_.active =>
        /\ timer_.interval >= LaunchDelay
        /\ timer_.interval <= CheckInterval
====
